---- MODULE Spec2Model ----
(***************************************************************************)
(* RingBuffer<T> of src/src/ring_buffer.rs: a fixed-capacity circular      *)
(* buffer with overwrite-on-full.  The struct is the record `self`; every  *)
(* method is an operator over that record, computed as the code computes   *)
(* it, and every public call is an action.  `log` is the history of the    *)
(* add and remove calls executed on the buffer, `op`/`ret` are the last    *)
(* public call and what it returned.                                       *)
(***************************************************************************)
EXTENDS Integers, Sequences, FiniteSets, TLC

\* self      the struct: [data, front, end, capacity, is_empty]; data is the
\*           Vec<T> (slot i of the code is data[i + 1])
\* panicked  an add call panicked (index out of bounds): no call follows
\* ctor      the constructor that built the buffer: "new" or "new_from_slice"
\* source    the slice given to new_from_slice (<<>> for new)
\* op        the public method called last
\* ret       what that call returned (None for the calls that return nothing)
\* log       the add and remove calls executed so far, in order, each with
\*           the item it was given or the Option<T> it returned
VARIABLES self, panicked, ctor, source, op, ret, log

vars == <<self, panicked, ctor, source, op, ret, log>>

\* ---------------------------------------------------------------- bounds
MaxCap == 3     \* capacities 0..MaxCap are constructed
MaxVal == 3     \* at most MaxVal distinct items are added
MaxOps == 6     \* at most MaxOps add/remove calls are executed on a buffer
MaxSlice == 2   \* add_from_slice takes slices of length 0..MaxSlice

\* T::default() for the integer item type of the tests (i32): never in Values.
DefaultT == 0

\* Option<T>: None is the empty tuple, Some(x) the 1-tuple.
None == <<>>
Some(x) == <<x>>

Max(S) == CHOOSE m \in S : \A k \in S : k <= m
Min(a, b) == IF a <= b THEN a ELSE b

\* T is only Copy + Default: the code never compares or inspects an item, so
\* renaming the items is a symmetry of the program.  An item is therefore
\* drawn from the values used so far and one value not used yet, which gives
\* every pattern of equal and distinct items once, up to renaming.
\* used is the largest value used so far (0 when none was).
Items(used) == 1..Min(MaxVal, used + 1)

\* The slices of length n whose items are drawn that way, one after another.
RECURSIVE Slices(_, _)
Slices(used, n) ==
    IF n = 0 THEN {<<>>}
    ELSE UNION {{<<x>> \o s : s \in Slices(IF x > used THEN x ELSE used, n - 1)} :
                x \in Items(used)}

SlicesUpTo(used, n) == UNION {Slices(used, k) : k \in 0..n}

\* ------------------------------------------------- the methods, as operators

\* vec![T::default(); capacity], front 0, end 0, is_empty true.
new(cap) ==
    [data |-> [i \in 1..cap |-> DefaultT],
     front |-> 0,
     end |-> 0,
     capacity |-> cap,
     is_empty |-> TRUE]

\* size with the "+ 1" of line 33 left out.
size_no_plus_one(s) ==
    IF s.end > s.front THEN s.end - s.front
    ELSE IF s.end < s.front THEN s.capacity - s.front + s.end + 1
    ELSE IF s.is_empty THEN 0
    ELSE 1

\* size with the "+ 1" of line 35 left out.
size_wrap_no_plus_one(s) ==
    IF s.end > s.front THEN s.end - s.front + 1
    ELSE IF s.end < s.front THEN s.capacity - s.front + s.end
    ELSE IF s.is_empty THEN 0
    ELSE 1

\* size that tells emptiness from the cursors alone: equal cursors count as
\* one element whatever the flag says.
size_ignores_flag(s) ==
    IF s.end > s.front THEN s.end - s.front + 1
    ELSE IF s.end < s.front THEN s.capacity - s.front + s.end + 1
    ELSE 1

size(s) ==
    IF s.end > s.front THEN s.end - s.front + 1
    ELSE IF s.end < s.front THEN s.capacity - s.front + s.end + 1
    ELSE IF s.is_empty THEN 0
    ELSE 1

is_empty(s) == s.is_empty

\* increment_front without the wrap-around of line 93.
increment_front_no_wrap(s) == [s EXCEPT !.front = s.front + 1]

increment_front(s) == [s EXCEPT !.front = (s.front + 1) % s.capacity]

\* increment_end without the wrap-around of line 98.
increment_end_no_wrap(s) == [s EXCEPT !.end = s.end + 1]

increment_end(s) == [s EXCEPT !.end = (s.end + 1) % s.capacity]

\* add that never advances front: a full buffer is not detected.
add_cursors_no_overwrite(s) ==
    IF s.is_empty
    THEN [s EXCEPT !.is_empty = FALSE, !.front = 0, !.end = 0]
    ELSE increment_end(s)

\* add that tests for the collision before it advances end.
add_cursors_check_first(s) ==
    IF s.is_empty
    THEN [s EXCEPT !.is_empty = FALSE, !.front = 0, !.end = 0]
    ELSE IF s.front = s.end
         THEN increment_front(increment_end(s))
         ELSE increment_end(s)

\* add without the cursor reset of lines 51-52.
add_cursors_no_reset(s) ==
    IF s.is_empty
    THEN [s EXCEPT !.is_empty = FALSE]
    ELSE LET s1 == increment_end(s)
         IN  IF s1.front = s1.end THEN increment_front(s1) ELSE s1

\* The cursor part of add (lines 48-58), before the store of line 59.
add_cursors(s) ==
    IF s.is_empty
    THEN [s EXCEPT !.is_empty = FALSE, !.front = 0, !.end = 0]
    ELSE LET s1 == increment_end(s)
         IN  IF s1.front = s1.end THEN increment_front(s1) ELSE s1

\* add that stores the item before it moves the cursors.
add_store_first(s, item) ==
    LET s1 == add_cursors(s)
    IN  IF s.end < Len(s.data)
        THEN [self |-> [s1 EXCEPT !.data[s.end + 1] = item], panicked |-> FALSE]
        ELSE [self |-> s1, panicked |-> TRUE]

\* add: the result is the struct after the call and whether the call
\* panicked: self.data[self.end] = item is a bounds-checked store, and an
\* index that is not below data.len() panics with the cursors already set.
add(s, item) ==
    LET s1 == add_cursors(s)
    IN  IF s1.end < Len(s1.data)
        THEN [self |-> [s1 EXCEPT !.data[s1.end + 1] = item], panicked |-> FALSE]
        ELSE [self |-> s1, panicked |-> TRUE]

\* add_from_slice: add for each item in ascending order; a panic ends the
\* loop.  calls is the number of add calls that were entered.
RECURSIVE add_from_slice(_, _)
add_from_slice(s, items) ==
    IF items = <<>>
    THEN [self |-> s, panicked |-> FALSE, calls |-> 0]
    ELSE LET r == add(s, Head(items))
         IN  IF r.panicked
             THEN [self |-> r.self, panicked |-> TRUE, calls |-> 1]
             ELSE LET t == add_from_slice(r.self, Tail(items))
                  IN  [t EXCEPT !.calls = t.calls + 1]

\* new_from_slice that adds the items in descending order of indices.
new_from_slice_descending(src) ==
    add_from_slice(new(Len(src)), [i \in 1..Len(src) |-> src[Len(src) + 1 - i]])

new_from_slice(src) == add_from_slice(new(Len(src)), src)

\* peek without the is_empty test.
peek_unchecked(s) ==
    IF s.front < Len(s.data) THEN Some(s.data[s.front + 1]) ELSE None

\* peek that reads the slot of the end cursor.
peek_end(s) == IF s.is_empty THEN None ELSE Some(s.data[s.end + 1])

peek(s) == IF s.is_empty THEN None ELSE Some(s.data[s.front + 1])

\* remove that returns the newest element.
remove_newest(s) ==
    IF s.is_empty
    THEN [self |-> s, ret |-> None]
    ELSE LET temp == s.data[s.end + 1]
         IN  [self |-> IF s.front = s.end
                       THEN [s EXCEPT !.is_empty = TRUE]
                       ELSE increment_front(s),
              ret |-> Some(temp)]

\* remove that advances front also when it removes the only element.
remove_always_advance(s) ==
    IF s.is_empty
    THEN [self |-> s, ret |-> None]
    ELSE LET temp == s.data[s.front + 1]
         IN  [self |-> IF s.front = s.end
                       THEN increment_front([s EXCEPT !.is_empty = TRUE])
                       ELSE increment_front(s),
              ret |-> Some(temp)]

\* remove without the is_empty test: the front slot is read out whatever
\* the flag says (nothing to read in an empty Vec).
remove_unchecked(s) ==
    IF s.front >= Len(s.data)
    THEN [self |-> s, ret |-> None]
    ELSE LET temp == s.data[s.front + 1]
         IN  [self |-> IF s.is_empty THEN s
                       ELSE IF s.front = s.end
                       THEN [s EXCEPT !.is_empty = TRUE]
                       ELSE increment_front(s),
              ret |-> Some(temp)]

\* remove that puts the default value back into the slot it read.
remove_clear_slot(s) ==
    IF s.is_empty
    THEN [self |-> s, ret |-> None]
    ELSE LET temp == s.data[s.front + 1]
             s1 == [s EXCEPT !.data[s.front + 1] = DefaultT]
         IN  [self |-> IF s.front = s.end
                       THEN [s1 EXCEPT !.is_empty = TRUE]
                       ELSE increment_front(s1),
              ret |-> Some(temp)]

\* remove that never sets the empty flag.
remove_never_empties(s) ==
    IF s.is_empty
    THEN [self |-> s, ret |-> None]
    ELSE LET temp == s.data[s.front + 1]
         IN  [self |-> IF s.front = s.end THEN s ELSE increment_front(s),
              ret |-> Some(temp)]

\* remove that also sends front back to slot 0 when it removes the only
\* element.
remove_resets_front(s) ==
    IF s.is_empty
    THEN [self |-> s, ret |-> None]
    ELSE LET temp == s.data[s.front + 1]
         IN  [self |-> IF s.front = s.end
                       THEN [s EXCEPT !.is_empty = TRUE, !.front = 0]
                       ELSE increment_front(s),
              ret |-> Some(temp)]

\* remove: the struct after the call and the value returned.
remove(s) ==
    IF s.is_empty
    THEN [self |-> s, ret |-> None]
    ELSE LET temp == s.data[s.front + 1]
         IN  [self |-> IF s.front = s.end
                       THEN [s EXCEPT !.is_empty = TRUE]
                       ELSE increment_front(s),
              ret |-> Some(temp)]

\* ------------------------------------------------------------- the history
AddEv(x) == [op |-> "add", val |-> Some(x)]
RemoveEv(r) == [op |-> "remove", val |-> r]

AddEvs(items, n) == [i \in 1..n |-> AddEv(items[i])]

\* The largest item added so far, 0 when there is none.
Used(l) == Max({0} \cup {l[i].val[1] : i \in {j \in 1..Len(l) : l[j].op = "add"}})

\* ------------------------------------------------------------------- Init
InitNew ==
    \E cap \in 0..MaxCap :
        /\ self = new(cap)
        /\ panicked = FALSE
        /\ ctor = "new"
        /\ source = <<>>
        /\ op = "new"
        /\ ret = None
        /\ log = <<>>

InitFromSlice ==
    \E src \in SlicesUpTo(0, MaxCap) :
        LET r == new_from_slice(src)
        IN  /\ self = r.self
            /\ panicked = r.panicked
            /\ ctor = "new_from_slice"
            /\ source = src
            /\ op = "new_from_slice"
            /\ ret = None
            /\ log = AddEvs(src, r.calls)

Init == InitNew \/ InitFromSlice

\* ---------------------------------------------------------------- actions
Add(item) ==
    /\ ~panicked
    /\ Len(log) < MaxOps
    /\ LET r == add(self, item)
       IN  /\ self' = r.self
           /\ panicked' = r.panicked
    /\ op' = "add"
    /\ ret' = None
    /\ log' = Append(log, AddEv(item))
    /\ UNCHANGED <<ctor, source>>

AddFromSlice(items) ==
    /\ ~panicked
    /\ Len(log) + Len(items) <= MaxOps
    /\ LET r == add_from_slice(self, items)
       IN  /\ self' = r.self
           /\ panicked' = r.panicked
           /\ log' = log \o AddEvs(items, r.calls)
    /\ op' = "add_from_slice"
    /\ ret' = None
    /\ UNCHANGED <<ctor, source>>

Peek ==
    /\ ~panicked
    /\ op' = "peek"
    /\ ret' = peek(self)
    /\ UNCHANGED <<self, panicked, ctor, source, log>>

Remove ==
    /\ ~panicked
    /\ Len(log) < MaxOps
    /\ LET r == remove(self)
       IN  /\ self' = r.self
           /\ ret' = r.ret
           /\ log' = Append(log, RemoveEv(r.ret))
    /\ op' = "remove"
    /\ UNCHANGED <<panicked, ctor, source>>

Next ==
    \/ \E item \in Items(Used(log)) : Add(item)
    \/ \E items \in SlicesUpTo(Used(log), MaxSlice) : AddFromSlice(items)
    \/ Peek
    \/ Remove

Spec == Init /\ [][Next]_vars

\* ------------------------------------------------- reading the history
\* The number of add calls in the history l.
NumAdds(l) == Cardinality({i \in 1..Len(l) : l[i].op = "add"})

\* No add call follows a remove call: l is its adds, then its removes.
AddsThenRemoves(l) ==
    \A i, j \in 1..Len(l) : (i < j /\ l[i].op = "remove") => l[j].op = "remove"

\* The items of l's first n events are pairwise distinct.
DistinctItems(l, n) == \A i, j \in 1..n : l[i].val = l[j].val => i = j

\* The abstract bounded queue after the history l on capacity cap: add
\* appends, dropping the head first when the queue holds cap items; remove
\* pops the head.
RECURSIVE AbsQueue(_, _)
AbsQueue(l, cap) ==
    IF l = <<>> THEN <<>>
    ELSE LET q == AbsQueue(SubSeq(l, 1, Len(l) - 1), cap)
             e == l[Len(l)]
         IN  IF e.op = "add"
             THEN Append(IF Len(q) = cap THEN Tail(q) ELSE q, e.val[1])
             ELSE IF q = <<>> THEN q ELSE Tail(q)

\* The slots from front to end, wrapping modulo capacity, in order.
Contents(s) ==
    [i \in 1..size(s) |-> s.data[((s.front + i - 1) % s.capacity) + 1]]

HeadOrNone(q) == IF q = <<>> THEN None ELSE Some(Head(q))

\* ----------------------------------------------------------------- claims

\* C1: FIFO order law.  On a buffer of capacity C >= 1 whose history is n
\* adds (n <= C, so nothing was overwritten) followed by at most n removes,
\* the i-th remove returned the i-th added value.
C1_FifoOrder ==
    LET n == NumAdds(log)
    IN  (/\ self.capacity >= 1
         /\ AddsThenRemoves(log)
         /\ n <= self.capacity
         /\ Len(log) <= 2 * n)
        => \A i \in 1..(Len(log) - n) : log[n + i].val = log[i].val

\* Three distinct items were added to a capacity-3 buffer and all three
\* were removed again.
C1_Witness ==
    /\ self.capacity = 3
    /\ ctor = "new"
    /\ Len(log) = 6
    /\ NumAdds(log) = 3
    /\ AddsThenRemoves(log)
    /\ DistinctItems(log, 3)
    /\ op = "remove"

\* C2: overwrite law.  On a buffer of capacity C >= 1 whose history is
\* n > C adds followed by removes, the i-th remove returned the (n-C+i)-th
\* added item for i <= C and None after that, and the buffer is empty once
\* C removes are done: the drain yields exactly the last C items, in order.
C2_Overwrite ==
    LET n == NumAdds(log)
        C == self.capacity
    IN  (C >= 1 /\ AddsThenRemoves(log) /\ n > C)
        => /\ \A i \in 1..(Len(log) - n) :
                log[n + i].val = (IF i <= C THEN log[n - C + i].val ELSE None)
           /\ (Len(log) - n >= C) <=> is_empty(self)

\* Three distinct items went into a capacity-2 buffer and
\* the buffer was drained by two removes.
C2_Witness ==
    /\ self.capacity = 2
    /\ NumAdds(log) = 3
    /\ Len(log) = 5
    /\ AddsThenRemoves(log)
    /\ DistinctItems(log, 3)
    /\ is_empty(self)

\* C3: the buffer refines the abstract bounded queue.  In every state of a
\* buffer of capacity C >= 1 the slots from front to end hold the abstract
\* queue of the history in order, size() is its length, and peek and remove
\* return its head (None when it is empty).
C3_Refinement ==
    self.capacity >= 1 =>
        LET q == AbsQueue(log, self.capacity)
        IN  /\ Contents(self) = q
            /\ size(self) = Len(q)
            /\ peek(self) = HeadOrNone(q)
            /\ remove(self).ret = HeadOrNone(q)

\* A capacity-3 buffer that has overwritten, had a remove, and stores its
\* two elements across the wrap-around (end < front).
C3_Witness ==
    /\ self.capacity = 3
    /\ NumAdds(log) >= 4
    /\ \E i \in 1..Len(log) : log[i].op = "remove"
    /\ self.end < self.front
    /\ Len(AbsQueue(log, self.capacity)) = 2

\* C4: on a buffer of capacity C >= 1 whose history is k adds and no
\* remove, k <= C, size() = k and is_empty() is false when k >= 1.
C4_SizeCountsAdds ==
    (/\ self.capacity >= 1
     /\ NumAdds(log) = Len(log)
     /\ Len(log) <= self.capacity)
    => /\ size(self) = Len(log)
       /\ (Len(log) >= 1 => ~is_empty(self))

\* A capacity-3 buffer built by new and filled by exactly three adds.
C4_Witness ==
    /\ self.capacity = 3
    /\ ctor = "new"
    /\ NumAdds(log) = 3
    /\ Len(log) = 3
    /\ size(self) = 3

\* C5: in every state of a buffer of capacity C >= 1, size() <= C, and
\* when is_empty() is false size() is end-front+1 if end >= front, else
\* C-front+end+1, and lies in 1..C.
C5_SizeFormula ==
    self.capacity >= 1 =>
        /\ size(self) <= self.capacity
        /\ ~is_empty(self) =>
              /\ size(self) = (IF self.end >= self.front
                               THEN self.end - self.front + 1
                               ELSE self.capacity - self.front + self.end + 1)
              /\ size(self) \in 1..self.capacity

\* A non-empty, not full buffer whose elements wrap around (end < front).
C5_Witness ==
    /\ self.capacity = 3
    /\ ~is_empty(self)
    /\ self.end < self.front
    /\ size(self) = 2

\* C6: in every state of a buffer of capacity C >= 1, is_empty() is true
\* if and only if size() returns 0.
C6_EmptyIffSizeZero ==
    self.capacity >= 1 => (is_empty(self) <=> size(self) = 0)

\* A buffer emptied by remove with its cursors left away from slot 0.
C6_Witness ==
    /\ self.capacity >= 2
    /\ is_empty(self)
    /\ self.front > 0
    /\ op = "remove"
    /\ ret # None

\* C7: size transitions.  On a buffer of capacity C >= 1 with size() = n,
\* add leaves size() = min(n+1, C) (add_from_slice of k items: min(n+k, C));
\* remove leaves size() = n-1 when n >= 1, the buffer being empty after it
\* exactly when n = 1, and leaves size() = 0 when n = 0.
C7_Step ==
    LET n == size(self)
        C == self.capacity
    IN  C >= 1 =>
           /\ op' = "add" => size(self') = Min(n + 1, C)
           /\ op' = "add_from_slice" =>
                 size(self') = Min(n + Len(log') - Len(log), C)
           /\ op' = "remove" =>
                 /\ size(self') = (IF n >= 1 THEN n - 1 ELSE 0)
                 /\ n >= 1 => (is_empty(self') <=> n = 1)
                 /\ n = 0 => is_empty(self')

C7_SizeTransitions == [][C7_Step]_vars

\* An add was just executed on a full capacity-2 buffer (its third add, no
\* remove before it) and size() stayed at 2.
C7_Witness ==
    /\ self.capacity = 2
    /\ op = "add"
    /\ Len(log) = 3
    /\ NumAdds(log) = 3
    /\ size(self) = 2

\* C8: empty-buffer laws.  Whenever a buffer of capacity C >= 1 is empty,
\* size() = 0, is_empty() is true, peek() and remove() return None, and a
\* remove call leaves front, end, the empty flag and the storage as they
\* were, however often it is repeated.
C8_EmptyState ==
    (self.capacity >= 1 /\ self.is_empty) =>
        /\ size(self) = 0
        /\ is_empty(self)
        /\ peek(self) = None
        /\ remove(self).ret = None
        /\ remove(self).self = self

C8_EmptyStep ==
    (self.capacity >= 1 /\ self.is_empty) =>
        /\ op' = "peek" => ret' = None
        /\ op' = "remove" => (ret' = None /\ self' = self)

C8_EmptyLaws == [](C8_EmptyState) /\ [][C8_EmptyStep]_vars

\* A buffer that was drained, and on which remove was then called twice
\* more: both calls returned None.
C8_Witness ==
    /\ self.capacity >= 2
    /\ self.is_empty
    /\ self.front > 0
    /\ op = "remove"
    /\ Len(log) >= 4
    /\ log[Len(log)].val = None
    /\ log[Len(log) - 1] = RemoveEv(None)

\* C9: peek idempotence.  A peek call changes no field of the buffer;
\* a peek right after a peek returns the same value; and on a non-empty
\* buffer a remove right after a peek returns the value peek returned.
C9_Step ==
    /\ op' = "peek" =>
          /\ self' = self
          /\ log' = log
          /\ size(self') = size(self)
          /\ op = "peek" => ret' = ret
    /\ (op = "peek" /\ op' = "remove" /\ ~is_empty(self)) => ret' = ret

C9_PeekIdempotent == [][C9_Step]_vars

\* peek was just called on a buffer of two elements whose front is not
\* its end, and returned a value.
C9_Witness ==
    /\ op = "peek"
    /\ ret # None
    /\ size(self) = 2
    /\ self.front > 0

\* C10: construction from a sequence.  For a non-empty s, new_from_slice(s)
\* has capacity Len(s), is full, and peek() = s[1]; the state that new(Len(s))
\* and the adds of s in ascending order reach is the state new_from_slice(s)
\* yields; and an add(x) right after the construction keeps size() at Len(s)
\* and makes peek() return s[2], or x when Len(s) = 1.
C10_FromSlice ==
    /\ (ctor = "new_from_slice" /\ op = "new_from_slice" /\ source # <<>>) =>
          /\ self.capacity = Len(source)
          /\ Len(self.data) = Len(source)
          /\ size(self) = Len(source)
          /\ peek(self) = Some(source[1])
          /\ Contents(self) = source
    /\ (/\ ctor = "new"
        /\ self.capacity >= 1
        /\ NumAdds(log) = Len(log)
        /\ Len(log) = self.capacity) =>
          self = new_from_slice([i \in 1..Len(log) |-> log[i].val[1]]).self
    /\ (/\ ctor = "new_from_slice"
        /\ source # <<>>
        /\ op = "add"
        /\ Len(log) = Len(source) + 1) =>
          /\ size(self) = Len(source)
          /\ peek(self) = (IF Len(source) = 1
                           THEN log[Len(log)].val
                           ELSE Some(source[2]))

\* A buffer built by new_from_slice from three distinct items, on which
\* one add was then executed.
C10_Witness ==
    /\ ctor = "new_from_slice"
    /\ Len(source) = 3
    /\ DistinctItems(log, 3)
    /\ op = "add"
    /\ Len(log) = 4

\* C11: adding to a buffer of capacity zero is not reachable: in no state
\* has an add call been executed (by add, add_from_slice or new_from_slice)
\* on a buffer whose capacity is 0.
C11_NoAddOnZeroCapacity ==
    ~(self.capacity = 0 /\ NumAdds(log) >= 1)

\* The items of the sequence q.
Range(q) == {q[i] : i \in 1..Len(q)}

\* x is an item that was added and has been neither removed nor overwritten
\* within the history l of a buffer of capacity cap, and is not the default
\* value that pre-fills the storage.
Live(x, l, cap) == x \in Range(AbsQueue(l, cap)) /\ x # DefaultT

\* C12: the default value is never returned.  In every state of a buffer
\* of capacity C >= 1, whatever peek() or remove() returns (would return
\* now, or has just returned) is an item passed to an earlier add and neither
\* removed nor overwritten since: no stale or never-written slot is read out.
C12_OnlyLiveValues ==
    self.capacity >= 1 =>
        /\ peek(self) # None => Live(peek(self)[1], log, self.capacity)
        /\ remove(self).ret # None =>
              Live(remove(self).ret[1], log, self.capacity)
        /\ (op = "peek" /\ ret # None) => Live(ret[1], log, self.capacity)
        /\ (op = "remove" /\ ret # None) =>
              Live(ret[1], SubSeq(log, 1, Len(log) - 1), self.capacity)

\* remove just returned a value from a capacity-3 buffer that has
\* overwritten an element, and that still holds a never-written or stale
\* slot next to its live ones.
C12_Witness ==
    /\ self.capacity = 3
    /\ op = "remove"
    /\ ret # None
    /\ NumAdds(log) >= 4
    /\ ~is_empty(self)
    /\ size(self) < self.capacity

\* C13: add never fails for capacity C >= 1.  In every state no call has
\* panicked, the slot add would write (the new end) is in 0..C-1 and inside
\* the storage, so add does not panic for any item, and the slot peek and
\* remove read on a non-empty buffer (front) is in 0..C-1.
C13_AddNeverFails ==
    self.capacity >= 1 =>
        /\ ~panicked
        /\ Len(self.data) = self.capacity
        /\ add_cursors(self).end \in 0..(self.capacity - 1)
        /\ \A item \in 1..MaxVal : ~add(self, item).panicked
        /\ ~self.is_empty => self.front \in 0..(Len(self.data) - 1)

\* A capacity-1 buffer on which add has just been executed for the third
\* time without a remove: end wrapped onto itself twice.
C13_Witness ==
    /\ self.capacity = 1
    /\ op = "add"
    /\ NumAdds(log) = 3
    /\ Len(log) = 3
    /\ ~panicked

\* C14: cursor range invariant.  On a buffer of capacity C >= 1,
\* 0 <= front < C and 0 <= end < C in every state, empty ones included.
C14_CursorRange ==
    self.capacity >= 1 =>
        /\ self.front \in 0..(self.capacity - 1)
        /\ self.end \in 0..(self.capacity - 1)

\* A buffer emptied by remove with both cursors left on the last slot.
C14_Witness ==
    /\ self.capacity = 3
    /\ self.is_empty
    /\ self.front = 2
    /\ self.end = 2

\* The item given to the add call that a step has just logged.
AddedItem(l) == l[Len(l)].val[1]

\* C15: add on a non-empty buffer of capacity C >= 1 advances end by one
\* modulo C; the advanced end collides with front exactly when the buffer
\* was full (size() = C) before the add; front advances by one modulo C in
\* that case and is unchanged otherwise; the item is stored at the new end
\* slot, and no other slot (nor the capacity or the flag) changes.
C15_Step ==
    LET C == self.capacity
        newEnd == (self.end + 1) % C
        full == (size(self) = C)
    IN  (C >= 1 /\ ~self.is_empty /\ op' = "add") =>
           /\ self'.end = newEnd
           /\ (newEnd = self.front) <=> full
           /\ self'.front = (IF full THEN (self.front + 1) % C ELSE self.front)
           /\ self'.data = [self.data EXCEPT ![newEnd + 1] = AddedItem(log')]
           /\ self'.capacity = C
           /\ self'.is_empty = FALSE
           /\ ~panicked'

C15_AddNonEmpty == [][C15_Step]_vars

\* Three adds filled a capacity-3 buffer, a remove moved front to slot 1,
\* an add filled it again, and the add just executed collided with front
\* and overwrote: front moved on to slot 2.
C15_Witness ==
    /\ self.capacity = 3
    /\ ctor = "new"
    /\ op = "add"
    /\ Len(log) = 6
    /\ NumAdds(log) = 5
    /\ log[4].op = "remove"
    /\ size(self) = 3
    /\ self.front = 2
    /\ self.end = 1

\* C16: add on an empty buffer of capacity C >= 1, fresh or emptied by
\* remove with the cursors left anywhere, sets the flag to false, front and
\* end to 0 and stores the item at slot 0 (nothing else changes), so that
\* peek() and remove() then return that item and size() = 1.
C16_Step ==
    (self.capacity >= 1 /\ self.is_empty /\ op' = "add") =>
        /\ self' = [self EXCEPT !.is_empty = FALSE, !.front = 0, !.end = 0,
                                !.data[1] = AddedItem(log')]
        /\ peek(self') = Some(AddedItem(log'))
        /\ remove(self').ret = Some(AddedItem(log'))
        /\ size(self') = 1
        /\ ~panicked'

C16_AddOnEmpty == [][C16_Step]_vars

\* A capacity-2 buffer took two adds and two removes, which left it empty
\* with both cursors on slot 1, and then one add.
C16_Witness ==
    /\ self.capacity = 2
    /\ ctor = "new"
    /\ Len(log) = 5
    /\ log[1].op = "add" /\ log[2].op = "add"
    /\ log[3].op = "remove" /\ log[4].op = "remove"
    /\ log[5].op = "add"
    /\ op = "add"
    /\ self.front = 0 /\ self.end = 0

\* C17: remove on a non-empty buffer returns the value at front and
\* changes neither end nor any storage slot: with front = end it only sets
\* the empty flag (cursors left in place), otherwise it only advances front
\* by one modulo capacity and the flag stays false.
C17_Step ==
    (self.capacity >= 1 /\ ~self.is_empty /\ op' = "remove") =>
        /\ ret' = Some(self.data[self.front + 1])
        /\ self'.end = self.end
        /\ self'.data = self.data
        /\ IF self.front = self.end
           THEN self' = [self EXCEPT !.is_empty = TRUE]
           ELSE self' = [self EXCEPT !.front = (self.front + 1) % self.capacity]

C17_RemoveNonEmpty == [][C17_Step]_vars

\* remove just advanced front from the last slot round to slot 0 and left
\* an element behind.
C17_Witness ==
    /\ self.capacity = 3
    /\ op = "remove"
    /\ ret # None
    /\ NumAdds(log) >= 4
    /\ self.front = 0
    /\ ~self.is_empty

\* The buffer after k consecutive remove calls on s.
RECURSIVE Drained(_, _)
Drained(s, k) == IF k = 0 THEN s ELSE remove(Drained(s, k - 1)).self

\* C18: draining terminates.  From every state of a buffer of capacity
\* C >= 1 with size() = n, each of n consecutive remove calls returns Some
\* value, the buffer is then empty with size() = 0, and the (n+1)-th remove
\* returns None.
C18_DrainTerminates ==
    self.capacity >= 1 =>
        LET n == size(self)
        IN  /\ \A k \in 1..n : remove(Drained(self, k - 1)).ret # None
            /\ is_empty(Drained(self, n))
            /\ size(Drained(self, n)) = 0
            /\ remove(Drained(self, n)).ret = None

\* A capacity-2 buffer took three adds (one overwrite), then three removes:
\* two returned values and the third returned None.
C18_Witness ==
    /\ self.capacity = 2
    /\ Len(log) = 6
    /\ NumAdds(log) = 3
    /\ AddsThenRemoves(log)
    /\ log[4].val # None
    /\ log[5].val # None
    /\ log[6].val = None
    /\ is_empty(self)
    /\ op = "remove"

\* C19: cursor equality does not determine emptiness.  On a buffer of
\* capacity C >= 2, every step that empties the buffer leaves a state that
\* held exactly one element with front = end and enters an empty state with
\* the same front and end, the two differing in the empty flag only (so
\* size() is 1 before and 0 after); the witness shows such a step happens.
C19_Step ==
    (self.capacity >= 2 /\ ~self.is_empty /\ self'.is_empty) =>
        /\ self.front = self.end
        /\ size(self) = 1
        /\ self' = [self EXCEPT !.is_empty = TRUE]
        /\ self'.front = self'.end
        /\ size(self') = 0

C19_SameCursorsBothStates == [][C19_Step]_vars

\* A buffer of capacity 3 was just emptied by a remove that returned a
\* value: the state before it held one element on the same cursors.
C19_Witness ==
    /\ self.capacity = 3
    /\ self.is_empty
    /\ op = "remove"
    /\ ret # None
    /\ self.front = self.end
    /\ self.front = 1

\* C20: in every state, an empty flag that is set comes with front = end:
\* the flag is only set by a step that finds the cursors equal, and no
\* cursor moves while the flag stays set; hence size() = 0 on an empty
\* buffer.
C20_State ==
    self.is_empty => (self.front = self.end /\ size(self) = 0)

C20_Step ==
    /\ (~self.is_empty /\ self'.is_empty) =>
          (self.front = self.end /\ self'.front = self'.end)
    /\ (self.is_empty /\ self'.is_empty) =>
          (self'.front = self.front /\ self'.end = self.end)

C20_EmptyImpliesEqualCursors == [](C20_State) /\ [][C20_Step]_vars

\* An empty buffer whose cursors were left on slot 1, on which remove was
\* called once more.
C20_Witness ==
    /\ self.is_empty
    /\ self.front = 1
    /\ self.end = 1
    /\ op = "remove"
    /\ ret = None

====
